---- MODULE Spec2Model ----
(***************************************************************************)
(* Model of SuspiciousNetNeighbors.py: the ARP-cache scrape, the MAC       *)
(* prefix match, the ping sweep (work queue + worker threads) and the      *)
(* report of main().                                                       *)
(*                                                                         *)
(* Python strings are sequences of one-character strings, so that the      *)
(* regular expressions, split/join, lower() and startswith() of the        *)
(* source are computed character by character.                             *)
(***************************************************************************)
EXTENDS Integers, Sequences, FiniteSets, Bags, TLC

(***************************************************************************)
(* Bounds of the model.                                                    *)
(***************************************************************************)
\* The pool size cap of ping_sweep, min(60, len(ips)) at line 120: the
\* model runs the same code with a smaller cap.
PoolCap == 2
\* The last host octet of the /24 lists, range(1, 255) at lines 94 and 204:
\* the model enumerates the host octets 1..LastHost.
LastHost == 3
\* Longest `arp -a` output, in lines.
MaxArpLines == 2
\* Longest list handed directly to ping_sweep.
MaxTargets == 3

\* Python's None, where the other values are strings or tuples
None == <<>>

Min(a, b) == IF a <= b THEN a ELSE b

(***************************************************************************)
(* Characters and strings.                                                 *)
(***************************************************************************)
Digits == {"0", "1", "2", "3", "4", "5", "6", "7", "8", "9"}
LowerHex == {"a", "b", "c", "d", "e", "f"}
UpperHex == {"A", "B", "C", "D", "E", "F"}

UpperCase == <<"A", "B", "C", "D", "E", "F", "G", "H", "I", "J", "K", "L", "M",
               "N", "O", "P", "Q", "R", "S", "T", "U", "V", "W", "X", "Y", "Z">>
LowerCase == <<"a", "b", "c", "d", "e", "f", "g", "h", "i", "j", "k", "l", "m",
               "n", "o", "p", "q", "r", "s", "t", "u", "v", "w", "x", "y", "z">>

LowerOf == [c \in {UpperCase[i] : i \in 1..26} |->
               LowerCase[CHOOSE i \in 1..26 : UpperCase[i] = c]]

\* str.lower() on one character
LowerChar(c) == IF c \in DOMAIN LowerOf THEN LowerOf[c] ELSE c

\* str.lower()
Lower(s) == [i \in 1..Len(s) |-> LowerChar(s[i])]

\* str.replace(old, new) for one-character old and new
Replace(s, old, new) == [i \in 1..Len(s) |-> IF s[i] = old THEN new ELSE s[i]]

\* str.startswith
StartsWith(s, p) == Len(p) <= Len(s) /\ SubSeq(s, 1, Len(p)) = p

\* The index after the longest run of characters in cls starting at i
\* (i itself when s[i] is not in cls): what a greedy [cls]* consumes.
RECURSIVE RunEnd(_, _, _)
RunEnd(s, i, cls) ==
    IF i > Len(s) \/ s[i] \notin cls THEN i ELSE RunEnd(s, i + 1, cls)

\* The first index >= i of s that holds c, 0 when there is none
RECURSIVE Find(_, _, _)
Find(s, c, i) ==
    IF i > Len(s) THEN 0 ELSE IF s[i] = c THEN i ELSE Find(s, c, i + 1)

\* str.split(sep) for a one-character sep
RECURSIVE Split(_, _)
Split(s, sep) ==
    LET j == Find(s, sep, 1)
    IN  IF j = 0 THEN <<s>>
        ELSE <<SubSeq(s, 1, j - 1)>> \o Split(SubSeq(s, j + 1, Len(s)), sep)

\* sep.join(parts)
RECURSIVE Join(_, _)
Join(parts, sep) ==
    IF parts = <<>> THEN <<>>
    ELSE IF Len(parts) = 1 THEN parts[1]
    ELSE parts[1] \o sep \o Join(Tail(parts), sep)

\* str(i) for a non-negative integer
DigitChar(d) == <<"0", "1", "2", "3", "4", "5", "6", "7", "8", "9">>[d + 1]
RECURSIVE IntToStr(_)
IntToStr(n) ==
    IF n < 10 THEN <<DigitChar(n)>>
    ELSE IntToStr(n \div 10) \o <<DigitChar(n % 10)>>

\* str.splitlines() of a text whose line terminator is "\n"
RECURSIVE splitlines(_)
splitlines(out) ==
    LET j == Find(out, "\n", 1)
    IN  IF out = <<>> THEN <<>>
        ELSE IF j = 0 THEN <<out>>
        ELSE <<SubSeq(out, 1, j - 1)>> \o splitlines(SubSeq(out, j + 1, Len(out)))

(***************************************************************************)
(* get_arp_entries: the pattern of line 24 and the loop of lines 28-35.    *)
(***************************************************************************)
Whitespace == {" ", "\t"}
MacChars == Digits \cup LowerHex \cup UpperHex \cup {":", "-"}

\* [0-9]+(?:\.[0-9]+){3} matched at position s: the index after the match,
\* 0 when there is none. Each run of digits is followed by a character
\* that is no digit, so the greedy runs are the only way to match.
QuadEnd(s, i) ==
    LET e1 == RunEnd(s, i, Digits)
        e2 == RunEnd(s, e1 + 1, Digits)
        e3 == RunEnd(s, e2 + 1, Digits)
        e4 == RunEnd(s, e3 + 1, Digits)
    IN  IF /\ e1 > i /\ e1 <= Len(s) /\ s[e1] = "."
           /\ e2 > e1 + 1 /\ e2 <= Len(s) /\ s[e2] = "."
           /\ e3 > e2 + 1 /\ e3 <= Len(s) /\ s[e3] = "."
           /\ e4 > e3 + 1
        THEN e4 ELSE 0

MacMinLen == 14
MacMaxLen == 17

\* pattern.match at position i of line: <<ip, mac>> or None
ArpMatchAt(line, i) ==
    LET e  == QuadEnd(line, i)
        w  == RunEnd(line, e, Whitespace)
        m  == RunEnd(line, w, MacChars)
    IN  IF e # 0 /\ w > e /\ m - w >= MacMinLen
        THEN <<SubSeq(line, i, e - 1), SubSeq(line, w, w + Min(MacMaxLen, m - w) - 1)>>
        ELSE None

\* pattern.search(line): the leftmost match from position i on
RECURSIVE ArpSearchFrom(_, _)
ArpSearchFrom(line, i) ==
    IF i > Len(line) THEN None
    ELSE LET m == ArpMatchAt(line, i)
         IN  IF m # None THEN m ELSE ArpSearchFrom(line, i + 1)

ArpSearch(line) == ArpSearchFrom(line, 1)

RECURSIVE ParseLines(_)
ParseLines(lines) ==
    IF lines = <<>> THEN <<>>
    ELSE LET m == ArpSearch(Head(lines))
         IN  (IF m = None THEN <<>>
              ELSE << <<m[1], Replace(Lower(m[2]), "-", ":")>> >>)
             \o ParseLines(Tail(lines))

\* The two ways out of a Python function: a returned value, or an
\* exception that propagates to the caller.
Return(v) == [exc |-> FALSE, val |-> v]
Raise == [exc |-> TRUE, val |-> <<>>]

\* The result of subprocess.run([...], capture_output=True, text=True,
\* check=True): ok with the text of stdout, or not ok when the command is
\* missing or exits non-zero (run raises).
Completed(text) == [ok |-> TRUE, stdout |-> text]
CommandFailed == [ok |-> FALSE, stdout |-> <<>>]

\* get_arp_entries without its try/except
get_arp_entries_uncaught(res) ==
    IF ~res.ok THEN Raise ELSE Return(ParseLines(splitlines(res.stdout)))

\* Lines 18-35
get_arp_entries(res) ==
    IF ~res.ok THEN Return(<<>>) ELSE Return(ParseLines(splitlines(res.stdout)))

(***************************************************************************)
(* The MAC prefix match of main, lines 41-63 and 217-223.                  *)
(***************************************************************************)
\* '94:83:c4'
P_GL ==
    <<"9", "4", ":", "8", "3", ":", "c", "4">>

\* '28:cd:c1'
P_Pi1 ==
    <<"2", "8", ":", "c", "d", ":", "c", "1">>

\* '2c:cf:67'
P_Pi2 ==
    <<"2", "c", ":", "c", "f", ":", "6", "7">>

\* '88:a2:9e'
P_Pi3 ==
    <<"8", "8", ":", "a", "2", ":", "9", "e">>

\* '8c:1f:64:34:a'
P_Pi4 ==
    <<"8", "c", ":", "1", "f", ":", "6", "4", ":", "3", "4", ":", "a">>

\* 'd8:3a:dd'
P_Pi5 ==
    <<"d", "8", ":", "3", "a", ":", "d", "d">>

\* 'dc:a6:32'
P_Pi6 ==
    <<"d", "c", ":", "a", "6", ":", "3", "2">>

\* 'e4:5f:01'
P_Pi7 ==
    <<"e", "4", ":", "5", "f", ":", "0", "1">>

\* 'f0:40:af:9'
P_Pi8 ==
    <<"f", "0", ":", "4", "0", ":", "a", "f", ":", "9">>

\* '0a:bc:de:f0:12:34'
P_Test ==
    <<"0", "a", ":", "b", "c", ":", "d", "e", ":", "f", "0", ":", "1", "2",
    ":", "3", "4">>

\* 'GL Technologies'
GLTechnologies ==
    <<"G", "L", " ", "T", "e", "c", "h", "n", "o", "l", "o", "g", "i", "e",
    "s">>

\* 'RaspberryPi'
RaspberryPi ==
    <<"R", "a", "s", "p", "b", "e", "r", "r", "y", "P", "i">>

\* 'Test'
Test ==
    <<"T", "e", "s", "t">>

\* The dict of lines 41-52, in insertion order: <<prefix, device>>
mac_device_map ==
    << <<P_GL, GLTechnologies>>, <<P_Pi1, RaspberryPi>>, <<P_Pi2, RaspberryPi>>,
       <<P_Pi3, RaspberryPi>>, <<P_Pi4, RaspberryPi>>, <<P_Pi5, RaspberryPi>>,
       <<P_Pi6, RaspberryPi>>, <<P_Pi7, RaspberryPi>>, <<P_Pi8, RaspberryPi>>,
       <<P_Test, Test>> >>

IsHexChar(c) == c \in Digits \cup LowerHex \cup UpperHex

\* Line 55 with the pattern ':' : only the colons are removed
NotColon(c) == c # ":"

_norm_colons_only(mac) == Lower(SelectSeq(mac, NotColon))

\* re.sub(r'[^0-9a-fA-F]', '', mac).lower()
_norm(mac) == Lower(SelectSeq(mac, IsHexChar))

\* The inner loop of lines 60-63 with its break left out: every rule is
\* tried and the last one that matches decides
RECURSIVE FirstDevice_nobreak(_, _)
FirstDevice_nobreak(mac, rules) ==
    IF rules = <<>> THEN None
    ELSE LET later == FirstDevice_nobreak(mac, Tail(rules))
         IN  IF later # None THEN later
             ELSE IF StartsWith(_norm(mac), _norm(Head(rules)[1]))
             THEN Head(rules)[2]
             ELSE None

\* The inner loop of lines 60-63 over the rules in the dict's order: the
\* device of the rule at which the loop breaks, None when it runs to its end
RECURSIVE FirstDevice(_, _)
FirstDevice(mac, rules) ==
    IF rules = <<>> THEN None
    ELSE IF StartsWith(_norm(mac), _norm(Head(rules)[1]))
    THEN Head(rules)[2]
    ELSE FirstDevice(mac, Tail(rules))

\* The loops of lines 57-63 nested the other way round: the rules outside,
\* the entries inside
RECURSIVE MatchLoop_by_rule(_, _)
MatchLoop_by_rule(es, rules) ==
    IF rules = <<>> THEN <<>>
    ELSE LET hit(e) == StartsWith(_norm(e[2]), _norm(Head(rules)[1]))
             miss(e) == ~hit(e)
             found == SelectSeq(es, hit)
         IN  [k \in 1..Len(found) |-> <<Head(rules)[2], found[k][1], found[k][2]>>]
             \o MatchLoop_by_rule(SelectSeq(es, miss), Tail(rules))

\* The loop of lines 57-63: one (device, ip, mac) per matching entry
RECURSIVE MatchLoop(_, _)
MatchLoop(es, rules) ==
    IF es = <<>> THEN <<>>
    ELSE LET e == Head(es)
             device == FirstDevice(e[2], rules)
         IN  (IF device = None THEN <<>> ELSE << <<device, e[1], e[2]>> >>)
             \o MatchLoop(Tail(es), rules)

\* The loop with the rules of lines 41-52
MatchEntries(es) == MatchLoop(es, mac_device_map)

(***************************************************************************)
(* get_local_ipv4, lines 70-79.                                            *)
(***************************************************************************)
\* 'IPv4 Address'
IPv4Label ==
    <<"I", "P", "v", "4", " ", "A", "d", "d", "r", "e", "s", "s">>

\* IPv4 Address[. ]*: ([0-9]+\.[0-9]+\.[0-9]+\.[0-9]+) matched at position i
\* of out: group 1, or None
LocalIpMatchAt(out, i) ==
    LET n == Len(IPv4Label)
        d == RunEnd(out, i + n, {".", " "})
        e == QuadEnd(out, d + 2)
    IN  IF /\ i + n - 1 <= Len(out)
           /\ SubSeq(out, i, i + n - 1) = IPv4Label
           /\ d + 1 <= Len(out) /\ out[d] = ":" /\ out[d + 1] = " "
           /\ e # 0
        THEN SubSeq(out, d + 2, e - 1)
        ELSE None

\* res is the result of subprocess.run(['ipconfig'], ..., check=True)
\* re.search(...): group 1 of the leftmost match from position i on, or None
RECURSIVE LocalIpSearchFrom(_, _)
LocalIpSearchFrom(out, i) ==
    IF i > Len(out) THEN None
    ELSE LET m == LocalIpMatchAt(out, i)
         IN  IF m # None THEN m ELSE LocalIpSearchFrom(out, i + 1)

get_local_ipv4(res) ==
    IF ~res.ok THEN Return(None) ELSE Return(LocalIpSearchFrom(res.stdout, 1))

(***************************************************************************)
(* ping_sweep, lines 81-129.                                               *)
(***************************************************************************)
\* '192.168.1'
DefaultPrefix ==
    <<"1", "9", "2", ".", "1", "6", "8", ".", "1">>

\* The argument of ping_sweep: a list of targets or a string
ListArg(l) == [list |-> TRUE, val |-> l]
StrArg(s) == [list |-> FALSE, val |-> s]

\* Lines 90-91 left out: a three-part prefix is refused
PingTargets_no_prefix(prefix_or_ip) ==
    IF prefix_or_ip.list THEN [ret |-> FALSE, ips |-> prefix_or_ip.val]
    ELSE LET parts == Split(prefix_or_ip.val, ".")
         IN  IF Len(parts) = 4
             THEN [ret |-> FALSE,
                   ips |-> [i \in 1..LastHost |->
                              Join(SubSeq(parts, 1, 3), <<".">>) \o <<".">> \o IntToStr(i)]]
             ELSE [ret |-> TRUE, ips |-> <<>>]

\* Line 94 with range(0, 254)
HostList_from_zero(pref) == [i \in 1..LastHost |-> pref \o <<".">> \o IntToStr(i - 1)]

\* [f"{pref}.{i}" for i in range(1, 255)]
HostList(pref) == [i \in 1..LastHost |-> pref \o <<".">> \o IntToStr(i)]

\* Lines 84-94: the targets, or ret when ping_sweep returns at line 93
PingTargets(prefix_or_ip) ==
    IF prefix_or_ip.list THEN [ret |-> FALSE, ips |-> prefix_or_ip.val]
    ELSE LET parts == Split(prefix_or_ip.val, ".")
         IN  IF Len(parts) = 4
             THEN [ret |-> FALSE, ips |-> HostList(Join(SubSeq(parts, 1, 3), <<".">>))]
             ELSE IF Len(parts) = 3
             THEN [ret |-> FALSE, ips |-> HostList(prefix_or_ip.val)]
             ELSE [ret |-> TRUE, ips |-> <<>>]

\* Line 120 without the cap
max_workers_nocap(targets) == Len(targets)

\* Line 120
max_workers(targets) == Min(PoolCap, Len(targets))

\* Line 111 peeking at the queue instead of taking from it
get_nowait_peek(queue) == [item |-> Head(queue), rest |-> queue]

\* q.get_nowait(), line 111, on a queue that is not empty: the oldest item
\* is removed and returned
get_nowait(queue) == [item |-> Head(queue), rest |-> Tail(queue)]

\* What subprocess.run(cmd + [target], capture_output=True, timeout=1) can
\* do: return with exit status 0 or not 0, raise TimeoutExpired after
\* killing the child, or raise OSError when ping cannot be started.
ProbeOutcomes == {"exit0", "exit1", "TimeoutExpired", "OSError"}
ProbeExceptions == {"TimeoutExpired", "OSError"}

\* subprocess.run, line 101, has no check=True: only the two exceptions raise
SubprocessRun(outcome) ==
    IF outcome \in ProbeExceptions THEN Raise ELSE Return(outcome)

\* _ping without its try/except
_ping_uncaught(outcome) == SubprocessRun(outcome)

\* _ping, lines 99-103, on an outcome of subprocess.run: the result is
\* dropped, and `except Exception: pass` swallows both exceptions.
_ping(outcome) ==
    LET r == SubprocessRun(outcome)
    IN  IF r.exc THEN Return(None) ELSE Return(None)

(***************************************************************************)
(* get_scan_targets_from_interface and its helpers, lines 131-206.         *)
(***************************************************************************)
\* int(s) for a string of decimal digits
RECURSIVE StrToInt(_)
StrToInt(s) ==
    IF s = <<>> THEN 0
    ELSE 10 * StrToInt(SubSeq(s, 1, Len(s) - 1))
         + (CHOOSE d \in 0..9 : DigitChar(d) = s[Len(s)])

IsOctet(s) ==
    /\ s # <<>>
    /\ Len(s) <= 3
    /\ \A k \in 1..Len(s) : s[k] \in Digits
    /\ StrToInt(s) <= 255

\* socket.inet_aton accepts the dotted quad a.b.c.d
IsDottedQuad(ip) ==
    LET parts == Split(ip, ".")
    IN  Len(parts) = 4 /\ \A k \in 1..4 : IsOctet(parts[k])

\* _ip2int, lines 131-132, on a dotted quad. The unsigned 32-bit number of
\* struct.unpack('!I', ...) is kept as its four octets, most significant
\* first: <<a, b, c, d>> stands for ((a * 256 + b) * 256 + c) * 256 + d.
_ip2int(ip) ==
    LET parts == Split(ip, ".")
    IN  <<StrToInt(parts[1]), StrToInt(parts[2]), StrToInt(parts[3]), StrToInt(parts[4])>>

\* _int2ip, lines 134-135
_int2ip(i) ==
    Join(<<IntToStr(i[1]), IntToStr(i[2]), IntToStr(i[3]), IntToStr(i[4])>>, <<".">>)

\* bin(x).count('1') of one octet
RECURSIVE CountOnes(_)
CountOnes(x) == IF x = 0 THEN 0 ELSE (x % 2) + CountOnes(x \div 2)

\* _mask_to_prefix, lines 137-138
_mask_to_prefix(mask) ==
    LET m == _ip2int(mask)
    IN  CountOnes(m[1]) + CountOnes(m[2]) + CountOnes(m[3]) + CountOnes(m[4])

\* a & b on octets
RECURSIVE BitAnd(_, _)
BitAnd(a, b) ==
    IF a = 0 \/ b = 0 THEN 0
    ELSE (a % 2) * (b % 2) + 2 * BitAnd(a \div 2, b \div 2)

\* x & y on 32-bit numbers
And32(x, y) == [k \in 1..4 |-> BitAnd(x[k], y[k])]

\* x | y on 32-bit numbers
Or32(x, y) == [k \in 1..4 |-> x[k] + y[k] - BitAnd(x[k], y[k])]

\* ~x & 0xFFFFFFFF, line 192
Not32(x) == [k \in 1..4 |-> 255 - x[k]]

\* y - x for 32-bit numbers
Minus32(y, x) ==
    (((y[1] - x[1]) * 256 + (y[2] - x[2])) * 256 + (y[3] - x[3])) * 256 + (y[4] - x[4])

\* x + n for a 32-bit number x and a small n >= 0, below 2^32
Plus32(x, n) ==
    LET v4 == x[4] + n
        v3 == x[3] + v4 \div 256
        v2 == x[2] + v3 \div 256
        v1 == x[1] + v2 \div 256
    IN  <<v1, v2 % 256, v3 % 256, v4 % 256>>

\* s in k
Contains(k, s) == \E i \in 1..(Len(k) - Len(s) + 1) : SubSeq(k, i, i + Len(s) - 1) = s

\* 'vpn'
K_vpn ==
    <<"v", "p", "n">>

\* 'anyconnect'
K_anyconnect ==
    <<"a", "n", "y", "c", "o", "n", "n", "e", "c", "t">>

\* 'tap'
K_tap ==
    <<"t", "a", "p">>

\* 'tun'
K_tun ==
    <<"t", "u", "n">>

\* 'ppp'
K_ppp ==
    <<"p", "p", "p">>

\* 'virtual'
K_virtual ==
    <<"v", "i", "r", "t", "u", "a", "l">>

\* 'vnic'
K_vnic ==
    <<"v", "n", "i", "c">>

\* 'openvpn'
K_openvpn ==
    <<"o", "p", "e", "n", "v", "p", "n">>

\* Line 144
keywords == <<K_vpn, K_anyconnect, K_tap, K_tun, K_ppp, K_virtual, K_vnic, K_openvpn>>

\* _is_vpn_iface, lines 140-145
_is_vpn_iface(name) ==
    IF name = None THEN FALSE
    ELSE \E x \in 1..Len(keywords) : Contains(Lower(name), keywords[x])

\* '127.'
Loopback ==
    <<"1", "2", "7", ".">>

\* A host's network state as netifaces reports it:
\*   default      gateways()['default'][AF_INET][1], None without a default route
\*   interfaces   interfaces()
\*   ifaddresses  per interface, ifaddresses(ifc).get(AF_INET): a list of
\*                [addr, netmask], None when the interface has no IPv4 address

\* Lines 160-169: the first interface that is not VPN-named and has an IPv4
\* address outside 127.*, None when there is none
RECURSIVE FirstUsable(_, _)
FirstUsable(h, ifcs) ==
    IF ifcs = <<>> THEN None
    ELSE LET ifc == Head(ifcs)
             addrs == h.ifaddresses[ifc]
         IN  IF _is_vpn_iface(ifc) THEN FirstUsable(h, Tail(ifcs))
             ELSE IF addrs = None THEN FirstUsable(h, Tail(ifcs))
             ELSE IF addrs[1].addr # None /\ ~StartsWith(addrs[1].addr, Loopback)
             THEN ifc
             ELSE FirstUsable(h, Tail(ifcs))

\* Lines 150-175 without the test of line 155: the default-gateway interface
\* is taken whatever its name
ChosenInterface_any_default(h) ==
    IF h.default # None THEN h.default ELSE FirstUsable(h, h.interfaces)

\* Lines 150-175: the interface chosen, None when there is none
ChosenInterface(h) ==
    LET preferred == IF h.default # None /\ ~_is_vpn_iface(h.default)
                     THEN h.default ELSE None
        scanned == IF preferred # None THEN preferred ELSE FirstUsable(h, h.interfaces)
    IN  IF scanned # None THEN scanned ELSE h.default

NoTargets == [none |-> TRUE, targets |-> <<>>]
Targets(l) == [none |-> FALSE, targets |-> l]

\* Lines 186-204 with range(net_base, bcast + 1)
EnumerateSubnet_with_ends(ip, netmask) ==
    LET mask_len == _mask_to_prefix(netmask)
        ip_i == _ip2int(ip)
        mask_i == _ip2int(netmask)
        net_base == And32(ip_i, mask_i)
        bcast == Or32(net_base, Not32(mask_i))
    IN  IF mask_len >= 24
        THEN [k \in 1..(Minus32(bcast, net_base) + 1) |-> _int2ip(Plus32(net_base, k - 1))]
        ELSE HostList(Join(SubSeq(Split(ip, "."), 1, 3), <<".">>))

\* Lines 186-204 with the test of line 187 as `mask_len >= 22`: the actual
\* range of a /22 or a /23 as well
EnumerateSubnet_from_22(ip, netmask) ==
    LET mask_len == _mask_to_prefix(netmask)
        ip_i == _ip2int(ip)
        mask_i == _ip2int(netmask)
        net_base == And32(ip_i, mask_i)
        bcast == Or32(net_base, Not32(mask_i))
    IN  IF mask_len >= 22
        THEN [k \in 1..(Minus32(bcast, net_base) - 1) |-> _int2ip(Plus32(net_base, k))]
        ELSE HostList(Join(SubSeq(Split(ip, "."), 1, 3), <<".">>))

\* Lines 186-204, on an address and a netmask that are dotted quads:
\* range(start, end + 1) holds bcast - net_base - 1 numbers, from
\* net_base + 1 on
EnumerateSubnet(ip, netmask) ==
    LET mask_len == _mask_to_prefix(netmask)
        ip_i == _ip2int(ip)
        mask_i == _ip2int(netmask)
        net_base == And32(ip_i, mask_i)
        bcast == Or32(net_base, Not32(mask_i))
    IN  IF mask_len >= 24
        THEN [k \in 1..(Minus32(bcast, net_base) - 1) |-> _int2ip(Plus32(net_base, k))]
        ELSE HostList(Join(SubSeq(Split(ip, "."), 1, 3), <<".">>))

\* get_scan_targets_from_interface, lines 147-206: none stands for None
get_scan_targets_from_interface(h) ==
    LET iface == ChosenInterface(h)
        addrs == h.ifaddresses[iface]
        a == addrs[1]
    IN  IF iface = None THEN NoTargets
        ELSE IF iface \notin DOMAIN h.ifaddresses THEN NoTargets
        ELSE IF addrs = None THEN NoTargets
        ELSE IF a.addr = None \/ a.netmask = None THEN NoTargets
        ELSE IF ~IsDottedQuad(a.addr) \/ ~IsDottedQuad(a.netmask) THEN NoTargets
        ELSE Targets(EnumerateSubnet(a.addr, a.netmask))

(***************************************************************************)
(* The report, lines 225-229.                                              *)
(***************************************************************************)
\* 'No matches found for configured MAC prefixes'
NoMatchesLine ==
    <<"N", "o", " ", "m", "a", "t", "c", "h", "e", "s", " ", "f", "o", "u",
    "n", "d", " ", "f", "o", "r", " ", "c", "o", "n", "f", "i", "g", "u",
    "r", "e", "d", " ", "M", "A", "C", " ", "p", "r", "e", "f", "i", "x",
    "e", "s">>

\* f"{i}. {device} {ip} {mac}"
MatchLine(i, m) ==
    IntToStr(i) \o <<".", " ">> \o m[1] \o <<" ">> \o m[2] \o <<" ">> \o m[3]

\* The lines printed
Printed(ms) ==
    IF ms = <<>> THEN <<NoMatchesLine>>
    ELSE [i \in 1..Len(ms) |-> MatchLine(i, ms[i])]

(***************************************************************************)
(* The platform: what `arp -a` and `ipconfig` answer.                      *)
(***************************************************************************)
\* 'Interface: 192.168.1.50 --- 0x4'
LineHeader ==
    <<"I", "n", "t", "e", "r", "f", "a", "c", "e", ":", " ", "1", "9", "2",
    ".", "1", "6", "8", ".", "1", ".", "5", "0", " ", "-", "-", "-", " ",
    "0", "x", "4">>

\* '  192.168.1.1   00-11-22-33-44-55   dynamic'
LineOther ==
    <<" ", " ", "1", "9", "2", ".", "1", "6", "8", ".", "1", ".", "1", " ",
    " ", " ", "0", "0", "-", "1", "1", "-", "2", "2", "-", "3", "3", "-",
    "4", "4", "-", "5", "5", " ", " ", " ", "d", "y", "n", "a", "m", "i",
    "c">>

\* '  192.168.1.10  28-CD-C1-AA-BB-CC  dynamic'
LinePi ==
    <<" ", " ", "1", "9", "2", ".", "1", "6", "8", ".", "1", ".", "1", "0",
    " ", " ", "2", "8", "-", "C", "D", "-", "C", "1", "-", "A", "A", "-",
    "B", "B", "-", "C", "C", " ", " ", "d", "y", "n", "a", "m", "i", "c">>

\* '10.0.0.7\t94:83:c4:01:02:03'
LineGL ==
    <<"1", "0", ".", "0", ".", "0", ".", "7", "\t", "9", "4", ":", "8", "3",
    ":", "c", "4", ":", "0", "1", ":", "0", "2", ":", "0", "3">>

ArpLines == {LineHeader, LineOther, LinePi, LineGL}

RECURSIVE Texts(_)
\* The texts of at most n lines of ArpLines, each ended by a newline
Texts(n) ==
    IF n = 0 THEN {<<>>}
    ELSE LET shorter == Texts(n - 1)
         IN  shorter \cup {l \o <<"\n">> \o t : l \in ArpLines, t \in shorter}

ArpResults == {CommandFailed} \cup {Completed(t) : t \in Texts(MaxArpLines)}

\* 'Ethernet adapter:\n   IPv4 Address. . . : 10.0.5.7\n   Subnet Mask . . . : 255.255.0.0\n'
IpconfigLan ==
    <<"E", "t", "h", "e", "r", "n", "e", "t", " ", "a", "d", "a", "p", "t",
    "e", "r", ":", "\n", " ", " ", " ", "I", "P", "v", "4", " ", "A", "d",
    "d", "r", "e", "s", "s", ".", " ", ".", " ", ".", " ", ":", " ", "1",
    "0", ".", "0", ".", "5", ".", "7", "\n", " ", " ", " ", "S", "u", "b",
    "n", "e", "t", " ", "M", "a", "s", "k", " ", ".", " ", ".", " ", ".",
    " ", ":", " ", "2", "5", "5", ".", "2", "5", "5", ".", "0", ".", "0",
    "\n">>

\* '   IPv4 Address. . . : 192.168.1.50\n   Subnet Mask . . . : 255.255.255.252\n'
IpconfigSmall ==
    <<" ", " ", " ", "I", "P", "v", "4", " ", "A", "d", "d", "r", "e", "s",
    "s", ".", " ", ".", " ", ".", " ", ":", " ", "1", "9", "2", ".", "1",
    "6", "8", ".", "1", ".", "5", "0", "\n", " ", " ", " ", "S", "u", "b",
    "n", "e", "t", " ", "M", "a", "s", "k", " ", ".", " ", ".", " ", ".",
    " ", ":", " ", "2", "5", "5", ".", "2", "5", "5", ".", "2", "5", "5",
    ".", "2", "5", "2", "\n">>

\* '   IPv4-Adresse  . . : 10.0.5.7\n'
IpconfigLocalized ==
    <<" ", " ", " ", "I", "P", "v", "4", "-", "A", "d", "r", "e", "s", "s",
    "e", " ", " ", ".", " ", ".", " ", ":", " ", "1", "0", ".", "0", ".",
    "5", ".", "7", "\n">>

\* 'eth0'
Eth0 ==
    <<"e", "t", "h", "0">>

\* '192.168.1.50'
AddrSmall ==
    <<"1", "9", "2", ".", "1", "6", "8", ".", "1", ".", "5", "0">>

\* '255.255.255.252'
MaskSmall ==
    <<"2", "5", "5", ".", "2", "5", "5", ".", "2", "5", "5", ".", "2", "5",
    "2">>

\* '10.0.5.7'
AddrLan ==
    <<"1", "0", ".", "0", ".", "5", ".", "7">>

\* '255.255.0.0'
MaskLan ==
    <<"2", "5", "5", ".", "2", "5", "5", ".", "0", ".", "0">>

\* No network: no interface, and ipconfig cannot be run
HostOffline ==
    [ipconfig |-> CommandFailed, default |-> None, interfaces |-> <<>>,
     ifaddresses |-> <<>>]

\* One interface on a /30 network, which has the default route
HostSmall ==
    [ipconfig |-> Completed(IpconfigSmall), default |-> Eth0, interfaces |-> <<Eth0>>,
     ifaddresses |-> [n \in {Eth0} |-> <<[addr |-> AddrSmall, netmask |-> MaskSmall]>>]]

\* One interface on a /16 network, which has the default route
HostLan ==
    [ipconfig |-> Completed(IpconfigLan), default |-> Eth0, interfaces |-> <<Eth0>>,
     ifaddresses |-> [n \in {Eth0} |-> <<[addr |-> AddrLan, netmask |-> MaskLan]>>]]

\* The same network on a Windows whose ipconfig prints another language
HostLocalized ==
    [ipconfig |-> Completed(IpconfigLocalized), default |-> Eth0,
     interfaces |-> <<Eth0>>,
     ifaddresses |-> [n \in {Eth0} |-> <<[addr |-> AddrLan, netmask |-> MaskLan]>>]]

Hosts == {HostOffline, HostSmall, HostLan, HostLocalized}

(***************************************************************************)
(* The arguments ping_sweep is called with when it is run on its own.      *)
(***************************************************************************)
\* '10.0.0.1'
TargetA == <<"1", "0", ".", "0", ".", "0", ".", "1">>
\* '10.0.0.2'
TargetB == <<"1", "0", ".", "0", ".", "0", ".", "2">>
\* '10.0'
TwoParts == <<"1", "0", ".", "0">>

RECURSIVE Lists(_)
\* The lists of at most n targets
Lists(n) ==
    IF n = 0 THEN {<<>>}
    ELSE LET shorter == Lists(n - 1)
         IN  shorter \cup {<<t>> \o l : t \in {TargetA, TargetB}, l \in shorter}

SweepArgs ==
    {ListArg(l) : l \in Lists(MaxTargets)}
        \cup {StrArg(TargetA), StrArg(DefaultPrefix), StrArg(TwoParts)}

(***************************************************************************)
(* The match loop and the report on their own, on any list of entries and  *)
(* any dict of rules.                                                      *)
(***************************************************************************)
MaxEntries == 3

\* '192.168.1.10'
IpPi ==
    <<"1", "9", "2", ".", "1", "6", "8", ".", "1", ".", "1", "0">>

\* '192.168.1.12'
IpPiBare ==
    <<"1", "9", "2", ".", "1", "6", "8", ".", "1", ".", "1", "2">>

\* '10.0.0.7'
IpGL ==
    <<"1", "0", ".", "0", ".", "0", ".", "7">>

\* '192.168.1.1'
IpOther ==
    <<"1", "9", "2", ".", "1", "6", "8", ".", "1", ".", "1">>

\* '28:cd:c1:aa:bb:cc'
MacPi ==
    <<"2", "8", ":", "c", "d", ":", "c", "1", ":", "a", "a", ":", "b", "b",
    ":", "c", "c">>

\* '28CDC1AABBCC'
MacPiBare ==
    <<"2", "8", "C", "D", "C", "1", "A", "A", "B", "B", "C", "C">>

\* '94:83:c4:01:02:03'
MacGL ==
    <<"9", "4", ":", "8", "3", ":", "c", "4", ":", "0", "1", ":", "0", "2",
    ":", "0", "3">>

\* '00:11:22:33:44:55'
MacOther ==
    <<"0", "0", ":", "1", "1", ":", "2", "2", ":", "3", "3", ":", "4", "4",
    ":", "5", "5">>

\* '28:cd'
P_Wide ==
    <<"2", "8", ":", "c", "d">>

\* '28-CD-C1'
P_PiDashed ==
    <<"2", "8", "-", "C", "D", "-", "C", "1">>

\* '9483C4'
P_GLBare ==
    <<"9", "4", "8", "3", "C", "4">>

\* The (ip, mac) pairs the loop is given
EntryPi == <<IpPi, MacPi>>
EntryPiBare == <<IpPiBare, MacPiBare>>
EntryGL == <<IpGL, MacGL>>
EntryOther == <<IpOther, MacOther>>

RECURSIVE EntryListsUpTo(_)
\* The lists of at most n entries
EntryListsUpTo(n) ==
    IF n = 0 THEN {<<>>}
    ELSE LET shorter == EntryListsUpTo(n - 1)
         IN  shorter \cup {<<e>> \o l : e \in {EntryPi, EntryPiBare, EntryGL, EntryOther},
                                        l \in shorter}

EntryLists == EntryListsUpTo(MaxEntries)

\* Dicts in which two prefixes start the same MAC, in either order
RulesWideFirst ==
    << <<P_Wide, Test>>, <<P_Pi1, RaspberryPi>>, <<P_GL, GLTechnologies>> >>

RulesNarrowFirst ==
    << <<P_GL, GLTechnologies>>, <<P_Pi1, RaspberryPi>>, <<P_Wide, Test>> >>

\* A dict whose prefixes are written with dashes, or with no separator
RulesDashed ==
    << <<P_PiDashed, RaspberryPi>>, <<P_GLBare, GLTechnologies>> >>

RuleLists == {mac_device_map, RulesWideFirst, RulesNarrowFirst, RulesDashed, <<>>}

(***************************************************************************)
(* The functions above on the values this platform can hand them: the      *)
(* steps below look their results up here.                                 *)
(***************************************************************************)
\* get_arp_entries on every answer of `arp -a`
ArpEntriesOf == [res \in ArpResults |-> get_arp_entries(res)]

EntriesDomain == {<<>>} \cup {ArpEntriesOf[res].val : res \in ArpResults}

\* The match loop on every list of entries
MatchesOf == [es \in EntriesDomain |-> MatchEntries(es)]

\* get_scan_targets_from_interface on every host
ScanTargetsOf == [h \in Hosts |-> get_scan_targets_from_interface(h)]

\* get_local_ipv4 on every host
LocalIpOf == [h \in Hosts |-> get_local_ipv4(h.ipconfig)]

ArgDomain ==
    SweepArgs \cup {StrArg(<<>>), StrArg(DefaultPrefix)}
        \cup {StrArg(LocalIpOf[h].val) : h \in Hosts}

\* Lines 84-94 on every argument
TargetsOf == [a \in ArgDomain |-> PingTargets(a)]

(***************************************************************************)
(* The state.                                                              *)
(***************************************************************************)
VARIABLES
    pc,          \* where main is
    host,        \* the platform the script runs on
    arp_log,     \* the results of the `arp -a` invocations so far, in order
    sweeps,      \* the number of calls of ping_sweep so far
    entries,     \* main's entries
    matches,     \* main's matches
    local_ip,    \* main's local_ip
    arg,         \* ping_sweep's prefix_or_ip
    ips,         \* ping_sweep's ips
    q,           \* the items of the queue.Queue, oldest first
    unfinished,  \* the queue's unfinished_tasks counter
    workers,     \* the threads started, in order: [pc, target]
    running,     \* per thread, the ping child processes started and not yet reaped
    joined,      \* the threads the loop of lines 128-129 has gone through
    probes,      \* the bag of targets _ping has been called on
    failed,      \* the threads whose latest probe did not exit with status 0
    output,      \* the lines printed
    device_map,  \* main's mac_device_map, as the list of its items
    scan_iface,  \* get_scan_targets_from_interface's iface
    scan_targets \* what get_scan_targets_from_interface returned

vars == <<pc, host, arp_log, sweeps, entries, matches, local_ip, arg, ips, q,
          unfinished, workers, running, joined, probes, failed, output, device_map,
          scan_iface, scan_targets>>

mainVars == <<entries, matches, local_ip, output>>
sweepVars == <<ips, q, unfinished, workers, running, joined, probes, failed>>
scanVars == <<scan_iface, scan_targets>>

NoArg == StrArg(<<>>)

Init ==
    /\ pc = "arp1"
    /\ host \in Hosts
    /\ arp_log = <<>>
    /\ sweeps = 0
    /\ entries = <<>>
    /\ matches = <<>>
    /\ local_ip = None
    /\ arg = NoArg
    /\ ips = <<>>
    /\ q = <<>>
    /\ unfinished = 0
    /\ workers = <<>>
    /\ running = <<>>
    /\ joined = 0
    /\ probes = EmptyBag
    /\ failed = {}
    /\ output = <<>>
    /\ device_map = mac_device_map
    /\ scan_iface = None
    /\ scan_targets = NoTargets

(***************************************************************************)
(* main, lines 38-68 and 208-229.                                          *)
(***************************************************************************)
\* Line 68 sweeping whatever the passive match found
NeedsSweep_always(ms) == TRUE

\* Line 68: `if not matches`
NeedsSweep(ms) == ms = <<>>

\* Line 39: entries = get_arp_entries()
ReadArp1 ==
    /\ pc = "arp1"
    /\ \E res \in ArpResults :
          LET r == ArpEntriesOf[res]
          IN  /\ arp_log' = Append(arp_log, res)
              /\ IF r.exc
                 THEN pc' = "crashed" /\ UNCHANGED entries
                 ELSE pc' = "match1" /\ entries' = r.val
    /\ UNCHANGED <<host, device_map, scanVars, sweeps, matches, local_ip, arg, output, sweepVars>>

\* Lines 57-68: the passive match and the test `if not matches`
Match1 ==
    /\ pc = "match1"
    /\ matches' = MatchesOf[entries]
    /\ pc' = IF NeedsSweep(matches') THEN "get_local_ipv4" ELSE "report"
    /\ UNCHANGED <<host, device_map, scanVars, arp_log, sweeps, entries, local_ip, arg, output, sweepVars>>

\* Lines 208-213: local_ip = get_local_ipv4() and the choice of the
\* argument of ping_sweep
GetLocalIpv4 ==
    /\ pc = "get_local_ipv4"
    /\ LET r == LocalIpOf[host]
       IN  IF r.exc
           THEN pc' = "crashed" /\ UNCHANGED <<local_ip, arg>>
           ELSE /\ local_ip' = r.val
                /\ arg' = IF r.val # None /\ r.val # <<>>
                          THEN StrArg(r.val) ELSE StrArg(DefaultPrefix)
                /\ pc' = "ping_sweep"
    /\ UNCHANGED <<host, device_map, scanVars, arp_log, sweeps, entries, matches, output, sweepVars>>

\* Lines 84-106: the targets are derived and put on the queue
PingSweepEnter ==
    /\ pc = "ping_sweep"
    /\ sweeps' = sweeps + 1
    /\ LET t == TargetsOf[arg]
       IN  IF t.ret
           THEN pc' = "arp2" /\ UNCHANGED <<ips, q, unfinished>>
           ELSE /\ ips' = t.ips
                /\ q' = t.ips
                /\ unfinished' = Len(t.ips)
                /\ pc' = "start_workers"
    /\ UNCHANGED <<host, device_map, scanVars, arp_log, arg, mainVars, workers, running, joined, probes, failed>>

\* Lines 119-125: one iteration of the loop that starts the threads
StartWorkers ==
    /\ pc = "start_workers"
    /\ IF Len(workers) < max_workers(ips)
       THEN /\ workers' = Append(workers, [pc |-> "get", target |-> None])
            /\ running' = Append(running, 0)
            /\ pc' = pc
       ELSE /\ pc' = "q_join"
            /\ UNCHANGED <<workers, running>>
    /\ UNCHANGED <<host, device_map, scanVars, arp_log, sweeps, arg, mainVars, ips, q, unfinished, joined,
                   probes, failed>>

\* Line 127 waiting for the queue to be empty only
JoinReady_empty == q = <<>>

\* Line 127: q.join() returns when unfinished_tasks is 0
JoinReady == unfinished = 0

QJoin ==
    /\ pc = "q_join"
    /\ JoinReady
    /\ pc' = "t_join"
    /\ UNCHANGED <<host, device_map, scanVars, arp_log, sweeps, arg, mainVars, sweepVars>>

\* Lines 128-129: t.join(timeout=0.01) returns when the thread has ended or
\* the 10 ms have passed; after the last thread ping_sweep returns.
TJoin ==
    /\ pc = "t_join"
    /\ IF joined < Len(workers)
       THEN joined' = joined + 1 /\ pc' = pc
       ELSE pc' = "arp2" /\ UNCHANGED joined
    /\ UNCHANGED <<host, device_map, scanVars, arp_log, sweeps, arg, mainVars, ips, q, unfinished, workers,
                   running, probes, failed>>

\* Line 216: entries = get_arp_entries()
ReadArp2 ==
    /\ pc = "arp2"
    /\ \E res \in ArpResults :
          LET r == ArpEntriesOf[res]
          IN  /\ arp_log' = Append(arp_log, res)
              /\ IF r.exc
                 THEN pc' = "crashed" /\ UNCHANGED entries
                 ELSE pc' = "match2" /\ entries' = r.val
    /\ UNCHANGED <<host, device_map, scanVars, sweeps, matches, local_ip, arg, output, sweepVars>>

\* Lines 217-223 going back to sweep again while nothing matches
Match2_resweep ==
    /\ pc = "match2"
    /\ matches' = MatchesOf[entries]
    /\ pc' = IF matches' = <<>> /\ sweeps < 3 THEN "get_local_ipv4" ELSE "report"
    /\ ips' = <<>> /\ q' = <<>> /\ unfinished' = 0 /\ workers' = <<>>
    /\ running' = <<>> /\ joined' = 0 /\ probes' = EmptyBag /\ failed' = {}
    /\ UNCHANGED <<host, device_map, scanVars, arp_log, sweeps, entries, local_ip, arg, output>>

\* Lines 217-223 left out: the passive matches are reported
Match2_skipped ==
    /\ pc = "match2"
    /\ pc' = "report"
    /\ UNCHANGED <<host, device_map, scanVars, arp_log, sweeps, entries, matches, local_ip, arg, output,
                   sweepVars>>

\* Lines 217-223: the match after the sweep
Match2 ==
    /\ pc = "match2"
    /\ matches' = MatchesOf[entries]
    /\ pc' = "report"
    /\ UNCHANGED <<host, device_map, scanVars, arp_log, sweeps, entries, local_ip, arg, output, sweepVars>>

\* Lines 225-229
Report ==
    /\ pc = "report"
    /\ output' = Printed(matches)
    /\ pc' = "done"
    /\ UNCHANGED <<host, device_map, scanVars, arp_log, sweeps, entries, matches, local_ip, arg, sweepVars>>

(***************************************************************************)
(* worker, lines 108-117. The threads are daemons: they run while the      *)
(* process does.                                                           *)
(***************************************************************************)
Alive == pc \notin {"done", "crashed"}

SetWorker(w, p, t) == [workers EXCEPT ![w] = [pc |-> p, target |-> t]]

\* Lines 110-113 with q.get(): the thread waits for an item
WorkerGet_blocking(w) ==
    /\ Alive
    /\ workers[w].pc = "get"
    /\ q # <<>>
    /\ LET g == get_nowait(q)
       IN  workers' = SetWorker(w, "_ping", g.item) /\ q' = g.rest
    /\ UNCHANGED <<pc, host, device_map, scanVars, arp_log, sweeps, arg, mainVars, ips,
                   unfinished, running, joined, probes, failed>>

\* Lines 110-113: q.get_nowait(), and return on queue.Empty
WorkerGet(w) ==
    /\ Alive
    /\ workers[w].pc = "get"
    /\ IF q = <<>>
       THEN workers' = SetWorker(w, "exit", None) /\ UNCHANGED q
       ELSE LET g == get_nowait(q)
            IN  workers' = SetWorker(w, "_ping", g.item) /\ q' = g.rest
    /\ UNCHANGED <<pc, host, device_map, scanVars, arp_log, sweeps, arg, mainVars, ips, unfinished, running,
                   joined, probes, failed>>

\* Where the thread goes after _ping: to the finally clause on a return, to
\* the finally clause with the exception pending otherwise
AfterPing(outcome) == IF _ping(outcome).exc THEN "finally_raise" ELSE "finally"

\* Lines 115 and 101: _ping(target) calls subprocess.run, which starts the
\* child or raises OSError
PingStart(w) ==
    /\ Alive
    /\ workers[w].pc = "_ping"
    /\ probes' = probes (+) SetToBag({workers[w].target})
    /\ \/ /\ workers' = SetWorker(w, "wait", workers[w].target)
          /\ running' = [running EXCEPT ![w] = @ + 1]
          /\ UNCHANGED failed
       \/ /\ workers' = SetWorker(w, AfterPing("OSError"), workers[w].target)
          /\ failed' = failed \cup {w}
          /\ UNCHANGED running
    /\ UNCHANGED <<pc, host, device_map, scanVars, arp_log, sweeps, arg, mainVars, ips, q, unfinished, joined>>

\* Line 101: the child exits, or is killed and reaped after the timeout
PingReturn(w) ==
    /\ Alive
    /\ workers[w].pc = "wait"
    /\ \E outcome \in ProbeOutcomes \ {"OSError"} :
          /\ workers' = SetWorker(w, AfterPing(outcome), workers[w].target)
          /\ failed' = IF outcome = "exit0" THEN failed \ {w} ELSE failed \cup {w}
    /\ running' = [running EXCEPT ![w] = @ - 1]
    /\ UNCHANGED <<pc, host, device_map, scanVars, arp_log, sweeps, arg, mainVars, ips, q, unfinished, joined,
                   probes>>

\* Lines 116-117: q.task_done(); the loop goes on, or the pending exception
\* ends the thread
WorkerTaskDone(w) ==
    /\ Alive
    /\ workers[w].pc \in {"finally", "finally_raise"}
    /\ unfinished' = unfinished - 1
    /\ workers' = SetWorker(w, IF workers[w].pc = "finally" THEN "get" ELSE "exit", None)
    /\ UNCHANGED <<pc, host, device_map, scanVars, arp_log, sweeps, arg, mainVars, ips, q, running, joined,
                   probes, failed>>

Next ==
    \/ ReadArp1 \/ Match1 \/ GetLocalIpv4 \/ PingSweepEnter \/ StartWorkers
    \/ QJoin \/ TJoin \/ ReadArp2 \/ Match2 \/ Report
    \/ \E w \in 1..Len(workers) : WorkerGet(w)
    \/ \E w \in 1..Len(workers) : PingStart(w)
    \/ \E w \in 1..Len(workers) : PingReturn(w)
    \/ \E w \in 1..Len(workers) : WorkerTaskDone(w)

Spec == Init /\ [][Next]_vars

\* The main thread and the worker threads are scheduled by the operating
\* system and every external command ends (the pings by their timeout):
\* a step that stays possible is taken.
FairSpec == Spec /\ WF_vars(Next)

(***************************************************************************)
(* ping_sweep on its own: called with any list of targets or any string.   *)
(***************************************************************************)
SweepInit ==
    /\ pc = "ping_sweep"
    /\ host = HostOffline
    /\ arp_log = <<>>
    /\ sweeps = 0
    /\ entries = <<>>
    /\ matches = <<>>
    /\ local_ip = None
    /\ arg \in SweepArgs
    /\ ips = <<>>
    /\ q = <<>>
    /\ unfinished = 0
    /\ workers = <<>>
    /\ running = <<>>
    /\ joined = 0
    /\ probes = EmptyBag
    /\ failed = {}
    /\ output = <<>>
    /\ device_map = mac_device_map
    /\ scan_iface = None
    /\ scan_targets = NoTargets

SweepNext ==
    \/ PingSweepEnter \/ StartWorkers \/ QJoin \/ TJoin
    \/ \E w \in 1..Len(workers) : WorkerGet(w)
    \/ \E w \in 1..Len(workers) : PingStart(w)
    \/ \E w \in 1..Len(workers) : PingReturn(w)
    \/ \E w \in 1..Len(workers) : WorkerTaskDone(w)

SweepSpec == SweepInit /\ [][SweepNext]_vars

\* The steps of thread w
WorkerStep(w) ==
    /\ w <= Len(workers)
    /\ (WorkerGet(w) \/ PingStart(w) \/ PingReturn(w) \/ WorkerTaskDone(w))

\* The main thread and each worker thread are scheduled again and again by
\* the operating system, and subprocess.run returns: the ping ends, or its
\* timeout of one second does.
FairSweepSpec ==
    /\ SweepSpec
    /\ WF_vars(PingSweepEnter \/ StartWorkers \/ QJoin \/ TJoin)
    /\ \A w \in 1..PoolCap : WF_vars(WorkerStep(w))

(***************************************************************************)
(* get_scan_targets_from_interface on its own, on the network states that  *)
(* netifaces can report.                                                   *)
(***************************************************************************)
\* 'wlan0'
Wlan0 ==
    <<"w", "l", "a", "n", "0">>

\* 'Tun0'
Tun0 ==
    <<"T", "u", "n", "0">>

\* 'lo'
Lo ==
    <<"l", "o">>

\* 'eth1'
Eth1 ==
    <<"e", "t", "h", "1">>

\* '127.0.0.1'
AddrLo ==
    <<"1", "2", "7", ".", "0", ".", "0", ".", "1">>

\* '10.8.0.2'
AddrTun ==
    <<"1", "0", ".", "8", ".", "0", ".", "2">>

\* '10.0.5.130'
AddrHigh ==
    <<"1", "0", ".", "0", ".", "5", ".", "1", "3", "0">>

\* '172.16.255.200'
AddrEdge ==
    <<"1", "7", "2", ".", "1", "6", ".", "2", "5", "5", ".", "2", "0", "0">>

\* '10.0.0.0'
AddrZero ==
    <<"1", "0", ".", "0", ".", "0", ".", "0">>

RECURSIVE Pow2(_)
Pow2(n) == IF n = 0 THEN 1 ELSE 2 * Pow2(n - 1)

\* The netmask of a network whose prefix is n bits long, as the operating
\* system reports it: n one bits followed by zero bits
MaskOctet(n, k) ==
    LET bits == IF n >= 8 * k THEN 8 ELSE IF n <= 8 * (k - 1) THEN 0 ELSE n - 8 * (k - 1)
    IN  256 - Pow2(8 - bits)

MaskOfLen(n) ==
    Join([k \in 1..4 |-> IntToStr(MaskOctet(n, k))], <<".">>)

\* The prefix lengths and the addresses the interface is given
PrefixLens == {16, 22, 23, 24, 25, 26, 30, 31, 32}

ScanAddrs == {AddrLan, AddrSmall, AddrHigh, AddrEdge, AddrZero}

Binding(addr, netmask) == <<[addr |-> addr, netmask |-> netmask]>>

\* One interface with the default route, on every network above
OneInterfaceHosts ==
    {[ipconfig |-> CommandFailed, default |-> Eth0, interfaces |-> <<Eth0>>,
      ifaddresses |-> [n \in {Eth0} |-> Binding(a, MaskOfLen(l))]] :
        a \in ScanAddrs, l \in PrefixLens}

\* What each interface of a host with several interfaces is bound to: eth1
\* has no IPv4 address
IfAddresses ==
    (Eth0 :> Binding(AddrHigh, MaskOfLen(25)))
        @@ (Wlan0 :> Binding(AddrSmall, MaskOfLen(30)))
        @@ (Tun0 :> Binding(AddrTun, MaskOfLen(24)))
        @@ (Lo :> Binding(AddrLo, MaskOfLen(8)))
        @@ (Eth1 :> None)

\* netifaces.interfaces(), in its order
InterfaceLists ==
    {<<>>, <<Lo>>, <<Tun0>>, <<Eth1>>, <<Lo, Tun0>>, <<Lo, Eth1, Tun0>>,
     <<Wlan0, Eth0>>, <<Eth0, Wlan0>>, <<Tun0, Wlan0>>, <<Lo, Tun0, Eth1, Wlan0, Eth0>>,
     <<Eth1, Eth0>>, <<Tun0, Lo, Eth0>>}

\* Every list of interfaces, with no default route or with the default
\* route on any one of them
ManyInterfaceHosts ==
    {[ipconfig |-> CommandFailed, default |-> d, interfaces |-> l,
      ifaddresses |-> [n \in {l[k] : k \in 1..Len(l)} |-> IfAddresses[n]]] :
        l \in InterfaceLists, d \in {None} \cup {Eth0, Wlan0, Tun0, Lo, Eth1}}

ScanHosts ==
    OneInterfaceHosts
        \cup {h \in ManyInterfaceHosts :
                h.default = None \/ \E k \in 1..Len(h.interfaces) : h.interfaces[k] = h.default}

ScanInit ==
    /\ pc = "get_scan_targets_from_interface"
    /\ host \in ScanHosts
    /\ arp_log = <<>>
    /\ sweeps = 0
    /\ entries = <<>>
    /\ matches = <<>>
    /\ local_ip = None
    /\ arg = NoArg
    /\ ips = <<>>
    /\ q = <<>>
    /\ unfinished = 0
    /\ workers = <<>>
    /\ running = <<>>
    /\ joined = 0
    /\ probes = EmptyBag
    /\ failed = {}
    /\ output = <<>>
    /\ device_map = mac_device_map
    /\ scan_iface = None
    /\ scan_targets = NoTargets

\* Lines 147-206: the call and its return
ScanTargets ==
    /\ pc = "get_scan_targets_from_interface"
    /\ scan_iface' = ChosenInterface(host)
    /\ scan_targets' = get_scan_targets_from_interface(host)
    /\ pc' = "scanned"
    /\ UNCHANGED <<host, device_map, arp_log, sweeps, arg, mainVars, sweepVars>>

ScanNext == ScanTargets

ScanSpec == ScanInit /\ [][ScanNext]_vars

(***************************************************************************)
(* Lines 57-63 and 225-229 on their own.                                   *)
(***************************************************************************)
MatchInit ==
    /\ pc = "match"
    /\ host = HostOffline
    /\ arp_log = <<>>
    /\ sweeps = 0
    /\ entries \in EntryLists
    /\ matches = <<>>
    /\ local_ip = None
    /\ arg = NoArg
    /\ ips = <<>>
    /\ q = <<>>
    /\ unfinished = 0
    /\ workers = <<>>
    /\ running = <<>>
    /\ joined = 0
    /\ probes = EmptyBag
    /\ failed = {}
    /\ output = <<>>
    /\ device_map \in RuleLists
    /\ scan_iface = None
    /\ scan_targets = NoTargets

\* Lines 57-63
Classify ==
    /\ pc = "match"
    /\ matches' = MatchLoop(entries, device_map)
    /\ pc' = "report"
    /\ UNCHANGED <<host, device_map, scanVars, arp_log, sweeps, entries, local_ip, arg, output,
                   sweepVars>>

MatchNext == Classify \/ Report

MatchSpec == MatchInit /\ [][MatchNext]_vars

(***************************************************************************)
(* get_arp_entries on its own, on any text.                                *)
(***************************************************************************)
\* '  Internet Address      Physical Address      Type'
LineColumns ==
    <<" ", " ", "I", "n", "t", "e", "r", "n", "e", "t", " ", "A", "d", "d",
    "r", "e", "s", "s", " ", " ", " ", " ", " ", " ", "P", "h", "y", "s",
    "i", "c", "a", "l", " ", "A", "d", "d", "r", "e", "s", "s", " ", " ",
    " ", " ", " ", " ", "T", "y", "p", "e">>

\* '  10.0.0.9   aabbccddeeff   dynamic'
LineBare ==
    <<" ", " ", "1", "0", ".", "0", ".", "0", ".", "9", " ", " ", " ", "a",
    "a", "b", "b", "c", "c", "d", "d", "e", "e", "f", "f", " ", " ", " ",
    "d", "y", "n", "a", "m", "i", "c">>

\* '  10.0.0.9   AABB-CCDD-EEFF   dynamic'
LineGrouped ==
    <<" ", " ", "1", "0", ".", "0", ".", "0", ".", "9", " ", " ", " ", "A",
    "A", "B", "B", "-", "C", "C", "D", "D", "-", "E", "E", "F", "F", " ",
    " ", " ", "d", "y", "n", "a", "m", "i", "c">>

\* '  10.0.0.9   aabbcc-ddeeff   dynamic'
LineHalves ==
    <<" ", " ", "1", "0", ".", "0", ".", "0", ".", "9", " ", " ", " ", "a",
    "a", "b", "b", "c", "c", "-", "d", "d", "e", "e", "f", "f", " ", " ",
    " ", "d", "y", "n", "a", "m", "i", "c">>

\* The lines a text is made of: those of `arp -a`, an empty line, and
\* MACs written with no separator or in groups
CacheLines ==
    {LineHeader, LineColumns, <<>>, LineOther, LinePi, LineGL, LineBare, LineGrouped,
     LineHalves}

RECURSIVE CacheTexts(_)
\* The texts of at most n lines of CacheLines, each ended by a newline
CacheTexts(n) ==
    IF n = 0 THEN {<<>>}
    ELSE LET shorter == CacheTexts(n - 1)
         IN  shorter \cup {l \o <<"\n">> \o t : l \in CacheLines, t \in shorter}

CacheResults == {CommandFailed} \cup {Completed(t) : t \in CacheTexts(MaxArpLines)}

ParseInit ==
    /\ pc = "get_arp_entries"
    /\ host = HostOffline
    /\ arp_log \in {<<res>> : res \in CacheResults}
    /\ sweeps = 0
    /\ entries = <<>>
    /\ matches = <<>>
    /\ local_ip = None
    /\ arg = NoArg
    /\ ips = <<>>
    /\ q = <<>>
    /\ unfinished = 0
    /\ workers = <<>>
    /\ running = <<>>
    /\ joined = 0
    /\ probes = EmptyBag
    /\ failed = {}
    /\ output = <<>>
    /\ device_map = mac_device_map
    /\ scan_iface = None
    /\ scan_targets = NoTargets

\* Lines 18-35, on the answer of `arp -a` in arp_log
ParseCache ==
    /\ pc = "get_arp_entries"
    /\ LET r == get_arp_entries(arp_log[1])
       IN  IF r.exc
           THEN pc' = "crashed" /\ UNCHANGED entries
           ELSE pc' = "parsed" /\ entries' = r.val
    /\ UNCHANGED <<host, device_map, scanVars, arp_log, sweeps, matches, local_ip, arg,
                   output, sweepVars>>

ParseNext == ParseCache

ParseSpec == ParseInit /\ [][ParseNext]_vars

(***************************************************************************)
(* Notions the properties share.                                           *)
(***************************************************************************)
RECURSIVE SeqToBag(_)
SeqToBag(seq) ==
    IF seq = <<>> THEN EmptyBag ELSE SetToBag({Head(seq)}) (+) SeqToBag(Tail(seq))

RECURSIVE Sum(_)
Sum(seq) == IF seq = <<>> THEN 0 ELSE Head(seq) + Sum(Tail(seq))

Threads == 1..Len(workers)

\* The threads that hold a target they took and have not called task_done for
Holding == {w \in Threads : workers[w].pc \in {"_ping", "wait", "finally", "finally_raise"}}

\* The threads inside _ping
InFlight == {w \in Threads : workers[w].pc \in {"_ping", "wait"}}

\* ping_sweep has put its targets on the queue
Loaded == pc \in {"start_workers", "q_join", "t_join"}

\* ping_sweep has returned
Returned == sweeps = 1 /\ pc \notin {"start_workers", "q_join", "t_join"}

\* What the passive phase matched, from the first answer of `arp -a`
PassiveMatches == MatchesOf[ArpEntriesOf[arp_log[1]].val]

\* What the cache as read after the sweep matches
ActiveMatches == MatchesOf[ArpEntriesOf[arp_log[2]].val]

(***************************************************************************)
(* C1                                                                      *)
(***************************************************************************)
\* C1: whatever the list of targets and the interleaving of the threads, no
\* target is probed more often than the list holds it; the unfinished
\* counter is the number of targets still queued or held by a thread, so
\* that q.join() lets ping_sweep return exactly when all are processed; and
\* when ping_sweep has returned the bag of probed targets is the bag of
\* the targets put on the queue: none twice, none skipped.
C1_EachTargetProbedOnce ==
    /\ \A t \in BagToSet(probes) : CopiesIn(t, probes) <= CopiesIn(t, SeqToBag(ips))
    /\ Loaded => unfinished = Len(q) + Cardinality(Holding)
    /\ (pc = "q_join" /\ probes = SeqToBag(ips) /\ Holding = {}) => ENABLED QJoin
    /\ Returned => (q = <<>> /\ Holding = {} /\ probes = SeqToBag(ips))

\* ping_sweep has returned from a list of MaxTargets targets that holds a
\* target twice, probed by PoolCap threads
C1_Witness ==
    /\ Returned
    /\ arg.list
    /\ Len(ips) >= 3
    /\ \E t \in BagToSet(probes) : CopiesIn(t, probes) >= 2
    /\ Cardinality(BagToSet(probes)) >= 2
    /\ Len(workers) >= 2

(***************************************************************************)
(* C2                                                                      *)
(***************************************************************************)
\* C2: from the moment main is about to read the neighbor cache the second
\* time, no target is on the queue, no thread is inside _ping and no ping
\* child process is alive.
C2_NoProbeAtSecondRead ==
    (sweeps = 1 /\ pc \in {"arp2", "match2", "report", "done"}) =>
        /\ q = <<>>
        /\ InFlight = {}
        /\ Holding = {}
        /\ \A w \in Threads : running[w] = 0

\* main is about to read the cache after a sweep that probed every target,
\* while a thread has not yet found the queue empty
C2_Witness ==
    /\ pc = "arp2"
    /\ sweeps = 1
    /\ Len(arp_log) = 1
    /\ probes = SeqToBag(ips)
    /\ Len(ips) >= 3
    /\ \E w \in Threads : workers[w].pc = "get"

(***************************************************************************)
(* C3                                                                      *)
(***************************************************************************)
\* C3: when the first read of the cache holds a record that matches a
\* configured prefix, nothing of the active phase happens: no lookup of
\* the local address, no call of ping_sweep, no thread, no probe, no
\* second read; and what is printed is the passive match list.
C3_PassiveMatchSkipsActive ==
    (Len(arp_log) >= 1 /\ pc # "match1" /\ PassiveMatches # <<>>) =>
        /\ pc \in {"report", "done"}
        /\ Len(arp_log) = 1
        /\ sweeps = 0
        /\ local_ip = None /\ arg = NoArg
        /\ workers = <<>> /\ probes = EmptyBag /\ q = <<>>
        /\ matches = PassiveMatches
        /\ pc = "done" => output = Printed(PassiveMatches)

\* The run is over with two passive matches printed and no sweep
C3_Witness ==
    /\ pc = "done"
    /\ Len(arp_log) = 1
    /\ Len(PassiveMatches) = 2
    /\ Len(output) = 2
    /\ sweeps = 0

(***************************************************************************)
(* C5                                                                      *)
(***************************************************************************)
\* C5: a run whose passive phase matched nothing reads the cache a second
\* time, and prints exactly the matches of that second read.
C5_ReportIsSecondRead ==
    (pc = "done" /\ PassiveMatches = <<>>) =>
        /\ Len(arp_log) = 2
        /\ matches = ActiveMatches
        /\ output = Printed(ActiveMatches)

\* The first read succeeded and matched nothing, the read after the sweep
\* holds one matching record, and that one match is what is printed
C5_Witness ==
    /\ pc = "done"
    /\ Len(arp_log) = 2
    /\ arp_log[1].ok
    /\ PassiveMatches = <<>>
    /\ Len(ActiveMatches) = 1
    /\ output = <<MatchLine(1, ActiveMatches[1])>>
    /\ probes = SeqToBag(ips) /\ Len(ips) >= 3

(***************************************************************************)
(* C4                                                                      *)
(***************************************************************************)
\* The run is over without a match after the active phase, with the
\* empty-result line printed
C4_Witness ==
    /\ pc = "done"
    /\ sweeps = 1
    /\ Len(arp_log) = 2
    /\ matches = <<>>
    /\ output = <<NoMatchesLine>>
    /\ probes = SeqToBag(ips) /\ Len(ips) >= 3

C4_Bounded ==
    /\ sweeps <= 1
    /\ Len(arp_log) <= 2
    /\ pc # "crashed"
    /\ (pc = "done" /\ matches = <<>>) => output = <<NoMatchesLine>>
    /\ (pc = "done" /\ sweeps = 1) => Len(arp_log) = 2

\* C4: a run calls ping_sweep at most once and reads the neighbor cache at
\* most twice, never ends on an error, prints the empty-result line when
\* nothing matched, and under fair scheduling reaches the end of main.
C4_OneSweepThenReport == []C4_Bounded /\ <>(pc = "done")

(***************************************************************************)
(* C6                                                                      *)
(***************************************************************************)
\* '192.168.1.'
FallbackDot == <<"1", "9", "2", ".", "1", "6", "8", ".", "1", ".">>

\* 192.168.1.1 .. 192.168.1.<LastHost>
FallbackTargets == [i \in 1..LastHost |-> FallbackDot \o IntToStr(i)]

\* C6: the targets of the sweep are those get_scan_targets_from_interface
\* derives from the address and the netmask of the interface it chooses,
\* and the fixed list 192.168.1.1 .. only when it resolves no interface.
C6_TargetsFromInterface ==
    sweeps = 1 =>
        ips = IF ScanTargetsOf[host].none THEN FallbackTargets
              ELSE ScanTargetsOf[host].targets

(***************************************************************************)
(* C7                                                                      *)
(***************************************************************************)
\* C7: when the active phase finds no local IPv4 address, ping_sweep is
\* still called, its targets are exactly 192.168.1.1 up to the last host
\* octet, all of them are probed, and the run goes on to the second read
\* and the report.
C7_FallbackSweep ==
    /\ (pc \notin {"arp1", "match1", "get_local_ipv4", "ping_sweep"} /\ sweeps = 0)
           => PassiveMatches # <<>>
    /\ (sweeps = 1 /\ local_ip = None) =>
           /\ ips = FallbackTargets
           /\ pc # "crashed"
           /\ Returned => probes = SeqToBag(FallbackTargets)
           /\ pc = "done" => Len(arp_log) = 2

\* ipconfig could not be run, and the fallback targets have all been probed
C7_Witness ==
    /\ ~host.ipconfig.ok
    /\ local_ip = None
    /\ pc = "done"
    /\ ips = FallbackTargets
    /\ probes = SeqToBag(FallbackTargets)

(***************************************************************************)
(* C8                                                                      *)
(***************************************************************************)
\* C8: an `arp -a` that cannot be run or exits non-zero yields no entries
\* and no exception: after a failed first read the active phase runs,
\* after a failed second read the empty-result line is printed, and main
\* never ends on an error.
C8_FailedReadIsEmpty ==
    /\ pc # "crashed"
    /\ (pc = "match1" /\ ~arp_log[1].ok) => entries = <<>>
    /\ (pc = "match2" /\ ~arp_log[2].ok) => entries = <<>>
    /\ (pc \in {"report", "done"} /\ ~arp_log[1].ok) => (sweeps = 1 /\ Len(arp_log) = 2)
    /\ (pc = "done" /\ Len(arp_log) = 2 /\ ~arp_log[2].ok) => output = <<NoMatchesLine>>

\* Both reads failed, the sweep ran in between, and the run ended with the
\* empty-result line
C8_Witness ==
    /\ pc = "done"
    /\ Len(arp_log) = 2
    /\ ~arp_log[1].ok /\ ~arp_log[2].ok
    /\ sweeps = 1 /\ probes = SeqToBag(ips) /\ Len(ips) >= 3
    /\ output = <<NoMatchesLine>>

(***************************************************************************)
(* C9                                                                      *)
(***************************************************************************)
C9_Step ==
    /\ \A w \in Threads :
          \* whatever subprocess.run does, _ping returns to the finally clause
          /\ (workers[w].pc \in {"_ping", "wait"} /\ workers'[w].pc # workers[w].pc)
                 => workers'[w].pc \in {"wait", "finally"}
          \* the target is counted as done and the thread takes the next one
          /\ (workers[w].pc = "finally" /\ workers'[w].pc # "finally")
                 => (unfinished' = unfinished - 1 /\ workers'[w].pc = "get")
          \* a thread ends only on finding the queue empty
          /\ (workers[w].pc # "exit" /\ workers'[w].pc = "exit")
                 => (workers[w].pc = "get" /\ q = <<>>)
    \* no target is put back on the queue
    /\ Loaded => (q' = q \/ q' = Tail(q))

C9_State ==
    /\ \A t \in BagToSet(probes) : CopiesIn(t, probes) <= CopiesIn(t, SeqToBag(ips))
    /\ (Loaded /\ Len(workers) = max_workers(ips) /\ \A w \in Threads : workers[w].pc = "exit")
           => (unfinished = 0 /\ q = <<>>)

\* C9: a probe that fails, times out or cannot be started is absorbed: the
\* thread reaches task_done for its target and then takes the next target,
\* no target is put back or probed again, and when all threads have ended
\* the queue is empty with nothing unfinished, so that q.join() returns.
C9_ProbeFailureAbsorbed == []C9_State /\ [][C9_Step]_vars

\* A thread whose latest probe failed is inside _ping for another target
C9_Witness ==
    \E w \in Threads :
        /\ w \in failed
        /\ workers[w].pc = "wait"
        /\ CopiesIn(workers[w].target, probes) >= 1
        /\ unfinished < Len(ips)

(***************************************************************************)
(* C10                                                                     *)
(***************************************************************************)
\* C10: ping_sweep starts exactly min(PoolCap, len(ips)) threads, at most
\* PoolCap ping processes are alive at any moment, and each thread has at
\* most one.
C10_PoolSize ==
    /\ Len(workers) <= Min(PoolCap, Len(ips))
    /\ (pc \in {"q_join", "t_join"} \/ Returned) => Len(workers) = Min(PoolCap, Len(ips))
    /\ Cardinality(InFlight) <= PoolCap
    /\ Sum(running) <= PoolCap
    /\ \A w \in Threads : running[w] <= 1

\* More targets than PoolCap, and PoolCap ping processes alive at once
C10_Witness ==
    /\ Len(ips) > PoolCap
    /\ Len(workers) = PoolCap
    /\ Sum(running) = PoolCap

(***************************************************************************)
(* The network of an interface, from its address and the length of its     *)
(* prefix, by arithmetic on the octets.                                    *)
(***************************************************************************)
\* The interface whose binding get_scan_targets_from_interface has read
BoundTo == host.ifaddresses[scan_iface][1]

\* The four numbers of a dotted quad
Octets(ip) == [k \in 1..4 |-> StrToInt(Split(ip, ".")[k])]

Quad(o) == Join([k \in 1..4 |-> IntToStr(o[k])], <<".">>)

\* The number of leading one bits of the netmask
PrefixLen(netmask) == CHOOSE n \in 0..32 : MaskOfLen(n) = netmask

\* The number of addresses an octet spans inside a network of prefix n
Span(n, k) == 256 - MaskOctet(n, k)

\* The lowest and the highest address of the network of ip
NetworkAddr(ip, n) ==
    Quad([k \in 1..4 |-> (Octets(ip)[k] \div Span(n, k)) * Span(n, k)])

BroadcastAddr(ip, n) ==
    Quad([k \in 1..4 |-> (Octets(ip)[k] \div Span(n, k)) * Span(n, k) + Span(n, k) - 1])

\* a.b.c.d for the first three octets of ip
InBlock(ip, d) == Quad([k \in 1..4 |-> IF k = 4 THEN d ELSE Octets(ip)[k]])

Scanned == pc = "scanned" /\ ~scan_targets.none

C12_ExactRangeOrBlock ==
    Scanned =>
        LET ip == BoundTo.addr
            n == PrefixLen(BoundTo.netmask)
            base == (Octets(ip)[4] \div Span(n, 4)) * Span(n, 4)
        IN  IF n >= 24
            THEN scan_targets.targets = [k \in 1..(Span(n, 4) - 2) |-> InBlock(ip, base + k)]
            ELSE scan_targets.targets = [k \in 1..LastHost |-> InBlock(ip, k)]

\* A /16 network: the list is the /24 block of the address, not the /16
C12_Witness ==
    /\ Scanned
    /\ PrefixLen(BoundTo.netmask) = 16
    /\ Len(scan_targets.targets) = LastHost
    /\ scan_targets.targets[1] = InBlock(BoundTo.addr, 1)

(***************************************************************************)
(* The match loop, rule by rule.                                           *)
(***************************************************************************)
Classified == pc \in {"report", "done"} /\ sweeps = 0 /\ arp_log = <<>>

\* The rules whose normalized prefix starts the normalized MAC of entry k
Hits(k) ==
    {j \in 1..Len(device_map) :
        StartsWith(_norm(entries[k][2]), _norm(device_map[j][1]))}

\* The entries some rule matches, and the place of such an entry among them
Matching == {k \in 1..Len(entries) : Hits(k) # {}}

Rank(k) == Cardinality({j \in Matching : j <= k})

FirstHit(k) == CHOOSE j \in Hits(k) : \A i \in Hits(k) : j <= i

(***************************************************************************)
(* C13                                                                     *)
(***************************************************************************)
\* C13: the device of a match is the label of the first rule, in the order
\* of the dict, whose normalized prefix starts the normalized MAC, also when
\* later rules match it too; an entry no rule matches gets no match.
C13_FirstRuleWins ==
    Classified =>
        /\ Len(matches) = Cardinality(Matching)
        /\ \A k \in Matching : matches[Rank(k)][1] = device_map[FirstHit(k)][2]

\* An entry that two rules with different labels match
C13_Witness ==
    /\ Classified
    /\ \E k \in Matching :
          \E j \in Hits(k) : j # FirstHit(k) /\ device_map[j][2] # device_map[FirstHit(k)][2]

(***************************************************************************)
(* C14                                                                     *)
(***************************************************************************)
Separators == {<<":">>, <<"-">>, <<>>}

UpperChar(c) ==
    IF \E i \in 1..26 : LowerCase[i] = c
    THEN UpperCase[CHOOSE i \in 1..26 : LowerCase[i] = c]
    ELSE c

RECURSIVE Pairs(_, _)
\* The hexadecimal digits two by two, joined by sep
Pairs(hex, sep) ==
    IF Len(hex) <= 2 THEN hex
    ELSE SubSeq(hex, 1, 2) \o sep \o Pairs(SubSeq(hex, 3, Len(hex)), sep)

\* The MAC or prefix s written with another separator and in another case
Restyle(s, sep, upper) ==
    LET paired == Pairs(SelectSeq(s, IsHexChar), sep)
    IN  [i \in 1..Len(paired) |-> IF upper THEN UpperChar(paired[i]) ELSE LowerChar(paired[i])]

RestyledEntries(sep, upper) ==
    [k \in 1..Len(entries) |-> <<entries[k][1], Restyle(entries[k][2], sep, upper)>>]

RestyledRules(sep, upper) ==
    [j \in 1..Len(device_map) |-> <<Restyle(device_map[j][1], sep, upper), device_map[j][2]>>]

\* Which entries matched, and as what
Labels(ms) == [i \in 1..Len(ms) |-> <<ms[i][1], ms[i][2]>>]

\* C14: writing the MACs of the entries, or the prefixes of the rules, with
\* ':' or '-' or no separator, in upper or lower case, changes neither
\* which entries match nor their devices.
C14_SeparatorAndCaseBlind ==
    Classified =>
        \A sm \in Separators, sp \in Separators, um \in BOOLEAN, up \in BOOLEAN :
            Labels(MatchLoop(RestyledEntries(sm, um), RestyledRules(sp, up))) = Labels(matches)

\* The same MAC with colons in lower case and with no separator in upper
\* case, both matched by a prefix written with dashes
C14_Witness ==
    /\ Classified
    /\ device_map = RulesDashed
    /\ Len(entries) >= 2
    /\ entries[1][2] = MacPi
    /\ entries[2][2] = MacPiBare
    /\ Len(matches) >= 2

(***************************************************************************)
(* C15                                                                     *)
(***************************************************************************)
\* C15: there is one match per entry that some rule matches and none for the
\* others, the matches carry the ip and mac of their entries in the order of
\* the entries, and the report numbers them from 1.
C15_CacheOrderNumbered ==
    Classified =>
        /\ Len(matches) = Cardinality(Matching)
        /\ \A k \in Matching :
              /\ matches[Rank(k)][2] = entries[k][1]
              /\ matches[Rank(k)][3] = entries[k][2]
        /\ (pc = "done" /\ matches # <<>>) =>
              /\ Len(output) = Len(matches)
              /\ \A i \in 1..Len(matches) :
                    output[i] = IntToStr(i) \o <<".", " ">> \o matches[i][1] \o <<" ">>
                                    \o matches[i][2] \o <<" ">> \o matches[i][3]
        /\ (pc = "done" /\ matches = <<>>) => output = <<NoMatchesLine>>

\* Three entries, the second unmatched; the matches are in the order of the
\* entries, which is not the order of their rules in the dict
C15_Witness ==
    /\ Classified
    /\ pc = "done"
    /\ device_map = mac_device_map
    /\ entries = <<EntryPi, EntryOther, EntryGL>>
    /\ Len(output) = 2

(***************************************************************************)
(* C16                                                                     *)
(***************************************************************************)
\* The places, in netifaces.interfaces(), of the interfaces that are not
\* VPN-named and have an IPv4 address outside 127.*
Usable ==
    {k \in 1..Len(host.interfaces) :
        LET n == host.interfaces[k]
        IN  /\ ~_is_vpn_iface(n)
            /\ host.ifaddresses[n] # None
            /\ SubSeq(host.ifaddresses[n][1].addr, 1, 4) # Loopback}

\* C16: the interface chosen is the default-gateway interface unless it is
\* VPN-named; otherwise the first usable interface in enumeration order;
\* otherwise the default-gateway interface even if VPN-named; otherwise none.
C16_SelectionPriority ==
    pc = "scanned" =>
        scan_iface =
            IF host.default # None /\ ~_is_vpn_iface(host.default) THEN host.default
            ELSE IF Usable # {}
                 THEN host.interfaces[CHOOSE k \in Usable : \A j \in Usable : k <= j]
            ELSE host.default

\* The default route is on a VPN-named interface that comes first, and a
\* usable interface further on is chosen
C16_Witness ==
    /\ pc = "scanned"
    /\ host.default = Tun0
    /\ host.interfaces[1] = Tun0
    /\ scan_iface = Wlan0
    /\ ~scan_targets.none

(***************************************************************************)
(* C17                                                                     *)
(***************************************************************************)
\* Lowercase hexadecimal pairs separated by colons
Canonical(mac) ==
    /\ mac # <<>>
    /\ mac = Restyle(mac, <<":">>, FALSE)

\* C17: every record get_arp_entries returns carries its MAC as lowercase
\* hexadecimal pairs separated by colons.
C17_CanonicalMac ==
    pc = "parsed" => \A k \in 1..Len(entries) : Canonical(entries[k][2])

(***************************************************************************)
(* C18                                                                     *)
(***************************************************************************)
\* Hex pairs joined by ':' or '-': twelve hexadecimal digits, with
\* separators only between two pairs, so 12 to 17 characters
MacShaped(t) ==
    /\ Len(SelectSeq(t, IsHexChar)) = 12
    /\ Len(t) <= 17
    /\ \A i \in 1..Len(t) :
          ~IsHexChar(t[i]) =>
              /\ i > 1 /\ i < Len(t)
              /\ IsHexChar(t[i - 1]) /\ IsHexChar(t[i + 1])
              /\ Len(SelectSeq(SubSeq(t, 1, i), IsHexChar)) % 2 = 0

\* The line holds a dotted quad, whitespace and then a MAC-shaped token
HasAddressPair(line) ==
    \E i \in 1..Len(line) :
        LET e == QuadEnd(line, i)
            w == RunEnd(line, e, Whitespace)
            m == RunEnd(line, w, MacChars)
        IN  e # 0 /\ w > e /\ MacShaped(SubSeq(line, w, m - 1))

\* The lines of the text get_arp_entries was given
GivenLines == splitlines(arp_log[1].stdout)

\* C18: get_arp_entries never raises and returns one record per line that
\* holds a dotted quad followed by a MAC-shaped token of 12 to 17
\* characters, and none for any other line.
C18_RecordPerAddressPair ==
    /\ pc # "crashed"
    /\ pc = "parsed" =>
          Len(entries) = Cardinality({k \in 1..Len(GivenLines) : HasAddressPair(GivenLines[k])})

(***************************************************************************)
(* C19                                                                     *)
(***************************************************************************)
\* C19: when ping_sweep has returned, the targets probed are exactly the
\* host octets 1 .. LastHost of one /24 block, each once: the block of the
\* address ipconfig reports when it reports one, 192.168.1 otherwise,
\* whatever the netmask of the interface.
C19_OneBlockSwept ==
    Returned =>
        LET block == IF local_ip # None
                     THEN [i \in 1..LastHost |-> InBlock(local_ip, i)]
                     ELSE FallbackTargets
        IN  /\ ips = block
            /\ probes = SeqToBag(block)
            /\ local_ip # None => local_ip = host.ifaddresses[Eth0][1].addr
            /\ local_ip = None => host \in {HostOffline, HostLocalized}

\* On a /30 network the whole /24 block of the address has been probed
C19_Witness ==
    /\ Returned
    /\ host = HostSmall
    /\ host.ifaddresses[Eth0][1].netmask = MaskSmall
    /\ BagCardinality(probes) = LastHost
    /\ BagIn(InBlock(AddrSmall, LastHost), probes)

(***************************************************************************)
(* C20                                                                     *)
(***************************************************************************)
\* A thread at q.get_nowait() can always take its step
C20_NeverBlocked ==
    \A w \in Threads : (Alive /\ workers[w].pc = "get") => ENABLED WorkerGet(w)

C20_Step ==
    /\ \A w \in Threads :
          \* the thread that finds the queue empty ends there and then
          /\ (workers[w].pc = "get" /\ q = <<>> /\ workers'[w] # workers[w])
                 => workers'[w].pc = "exit"
          \* a thread that has ended stays so
          /\ workers[w].pc = "exit" => workers'[w].pc = "exit"
    \* once the queue is empty it stays empty, and no thread takes a target
    /\ (Loaded /\ q = <<>>) =>
          /\ q' = <<>>
          /\ \A w \in Threads : workers[w].pc = "get" => workers'[w].pc # "_ping"

AllExited ==
    /\ sweeps = 1
    /\ Len(workers) = max_workers(ips)
    /\ \A w \in Threads : workers[w].pc = "exit"

\* C20: under fair scheduling every thread of the sweep ends: a thread never
\* waits on the queue, it ends the first time it finds the queue empty, once
\* the queue is empty no thread takes another target, and eventually all
\* the threads started have ended for good.
C20_WorkersTerminate == []C20_NeverBlocked /\ [][C20_Step]_vars /\ <>[]AllExited

\* PoolCap threads have shared more targets than there are threads, and
\* all have ended
C20_Witness ==
    /\ AllExited
    /\ Len(workers) = PoolCap
    /\ Len(ips) > PoolCap
    /\ BagCardinality(probes) = Len(ips)

====
